---- MODULE Spec2Model ----
(***************************************************************************)
(* Model of the A* sketch quoted in src/pages/projects/astar.js            *)
(* (sketch.js: setup and draw; node.js: MapNode).                          *)
(*                                                                         *)
(* A cell is the pair <<column, row>>.  Every per-node field of MapNode is *)
(* a function from cells to values.  Distances are p5's dist() on pixel    *)
(* coordinates, kept in fixed point (hundredths of a pixel).               *)
(*                                                                         *)
(* The column and row that draw() and getConnections() read are the grid   *)
(* indices x and y the node was constructed with.  Of the eight tests in   *)
(* getConnections the source shows the first (column - 1) and the last     *)
(* (column + 1, row + 1); Directions fixes an order for the six between.   *)
(* Array.prototype.sort is stable.                                         *)
(*                                                                         *)
(* The recursive operators bind each intermediate result to a variable     *)
(* ranging over a one-element set, so that it is evaluated once.           *)
(***************************************************************************)
EXTENDS Integers, Sequences, FiniteSets, TLC

\* ---- bounds of the model ------------------------------------------------
\* largest number of cells (columns * rows) of a grid
MaxCells == 9
\* getConnections() calls allowed in one behaviour of CallSpec
MaxCalls == 2
\* draw() calls allowed in one behaviour: enough to finish any search on the
\* largest grid and to call draw() again afterwards
MaxSteps == MaxCells + 3

\* ---- program constants --------------------------------------------------
percentFilled == 30
nodeHeight == 30
nodeWidth == 30

\* states of a MapNode
OPEN == "open"
BLOCKED == "blocked"
FINISH == "end-node"
QUEUED == "queued"
CLOSED == "closed"
SUCCESS == "success"
FAILED == "failed"

\* value of cameFrom before it is assigned
Undefined == <<>>

\* what setup ended with: nothing thrown, or a TypeError
NoError == "none"
TypeError == "TypeError"

VARIABLES columns, rows, state, g, h, f, cameFrom, connected, queue, closed, steps,
          density, error

vars == <<columns, rows, state, g, h, f, cameFrom, connected, queue, closed, steps,
          density, error>>

\* ---- helpers ------------------------------------------------------------
CellsOf(c, r) == (0 .. c - 1) \X (0 .. r - 1)

Cells == CellsOf(columns, rows)

start == <<0, 0>>

finish == <<columns - 1, rows - 1>>

\* floor of the square root, by bisection on lo <= sqrt(n) < hi
RECURSIVE ISqrt(_, _, _)
ISqrt(n, lo, hi) ==
  IF hi - lo <= 1 THEN lo
  ELSE CHOOSE r \in {IF mid * mid <= n THEN ISqrt(n, mid, hi) ELSE ISqrt(n, lo, mid) :
                       mid \in {(lo + hi) \div 2}} : TRUE

\* p5 dist(x1, y1, x2, y2) in hundredths of a pixel
dist(x1, y1, x2, y2) ==
  ISqrt(((x2 - x1) * (x2 - x1) + (y2 - y1) * (y2 - y1)) * 10000, 0, 46340)

\* dist between the pixel positions of two cells, as draw() and setup() call it
NodeDist(a, b) ==
  dist(a[1] * nodeWidth, a[2] * nodeHeight, b[1] * nodeWidth, b[2] * nodeHeight)

\* queue.sort((a, b) => a.f - b.f): a stable sort, ascending in f
RECURSIVE InsertByF(_, _, _)
InsertByF(sorted, node, fv) ==
  IF sorted = <<>> THEN <<node>>
  ELSE IF fv[node] < fv[Head(sorted)] THEN <<node>> \o sorted
  ELSE CHOOSE r \in {<<Head(sorted)>> \o InsertByF(rest, node, fv) :
                       rest \in {Tail(sorted)}} : TRUE

RECURSIVE SortByF(_, _)
SortByF(q, fv) ==
  IF q = <<>> THEN <<>>
  ELSE CHOOSE r \in {InsertByF(front, q[Len(q)], fv) :
                       front \in {SortByF(SubSeq(q, 1, Len(q) - 1), fv)}} : TRUE

\* ---- MapNode.getConnections ---------------------------------------------
\* the eight neighbour offsets in the order the method tests them
\* variant: only the four tests on column or row alone, no diagonal
Directions_orthogonal ==
  << <<-1, 0>>, <<1, 0>>, <<0, -1>>, <<0, 1>> >>

Directions ==
  << <<-1, 0>>, <<1, 0>>, <<0, -1>>, <<0, 1>>,
     <<-1, -1>>, <<1, -1>>, <<-1, 1>>, <<1, 1>> >>

\* variant: the state of the neighbour is not tested at all
Connectable_anyState(st, n) == n \in Cells

\* variant: the test only excludes BLOCKED neighbours
Connectable_notBlocked(st, n) ==
  /\ n \in Cells
  /\ st[n] # BLOCKED

\* variant: a QUEUED neighbour passes the test as well
Connectable_queuedToo(st, n) ==
  /\ n \in Cells
  /\ st[n] = OPEN \/ st[n] = FINISH \/ st[n] = QUEUED

\* the test guarding one push: the neighbour is inside the grid and its
\* state is OPEN or FINISH
Connectable(st, n) ==
  /\ n \in Cells
  /\ st[n] = OPEN \/ st[n] = FINISH

RECURSIVE Pushes(_, _, _)
Pushes(st, cell, i) ==
  IF i > Len(Directions) THEN <<>>
  ELSE CHOOSE r \in {(IF Connectable(st, n) THEN <<n>> ELSE <<>>) \o Pushes(st, cell, j) :
                       n \in {<<cell[1] + Directions[i][1], cell[2] + Directions[i][2]>>},
                       j \in {i + 1}} : TRUE

\* `!this.connected == []` is `false == []`, which is true for every array:
\* each call pushes onto the list the node already holds and returns it
getConnections(conn, st, cell) == conn[cell] \o Pushes(st, cell, 1)

\* ---- setup --------------------------------------------------------------
\* the sets of cells the fill loop can leave BLOCKED when percentFilled is
\* pf: Math.random() * 100 lies in [0, 100), so `> pf` holds always for
\* pf < 0, never for pf >= 100, and either way in between
BlockedChoices(pf, cells) ==
  IF pf < 0 THEN {{}}
  ELSE IF pf >= 100 THEN {cells}
  ELSE SUBSET cells

\* variant: only an empty list of columns makes setup throw
SetupError_columnsOnly(c, r) == IF c = 0 THEN TypeError ELSE NoError

\* setup on a grid without cells: with no column grid[0] is undefined and
\* grid[0][0] throws; with no row start is undefined and start.setState throws
SetupError(c, r) == IF c = 0 \/ r = 0 THEN TypeError ELSE NoError

\* setup for a canvas of c columns and r rows with percentFilled set to pf
Setup(c, r, pf) ==
  \E blocked \in BlockedChoices(pf, CellsOf(c, r) \ {<<0, 0>>, <<c - 1, r - 1>>}) :
    /\ columns = c
    /\ rows = r
    /\ density = pf
    /\ error = SetupError(c, r)
    /\ state = [n \in CellsOf(c, r) |->
                  IF n = <<c - 1, r - 1>> THEN FINISH
                  ELSE IF n = <<0, 0>> THEN OPEN
                  ELSE IF n \in blocked THEN BLOCKED ELSE OPEN]
    /\ g = [n \in CellsOf(c, r) |-> 0]
    /\ h = [n \in CellsOf(c, r) |->
              IF n = <<0, 0>> THEN NodeDist(<<0, 0>>, <<c - 1, r - 1>>) ELSE 0]
    /\ f = [n \in CellsOf(c, r) |->
              IF n = <<0, 0>> THEN 0 + NodeDist(<<0, 0>>, <<c - 1, r - 1>>) ELSE 0]
    /\ cameFrom = [n \in CellsOf(c, r) |-> Undefined]
    /\ connected = [n \in CellsOf(c, r) |-> <<>>]
    /\ queue = IF SetupError(c, r) = NoError THEN <<<<0, 0>>>> ELSE <<>>
    /\ closed = <<>>
    /\ steps = 0

\* the sketch as written, on a canvas that holds at least one node
Init ==
  \E c \in 1 .. MaxCells :
    \E r \in 1 .. (MaxCells \div c) :
      Setup(c, r, percentFilled)

\* values of the grid option percentFilled: below 0, as written, above 100
Densities == {-10, percentFilled, 150}

\* the sketch on any canvas, one narrower or lower than a node included, and
\* with any of the values of percentFilled
ConfigInit ==
  \E c \in 0 .. MaxCells :
    \E r \in 0 .. (IF c = 0 THEN MaxCells ELSE MaxCells \div c) :
      \E pf \in Densities :
        Setup(c, r, pf)

\* ---- draw ---------------------------------------------------------------
\* the cells the success branch walks over: node, node.cameFrom, ... up to
\* but not including the first node whose cameFrom is undefined
RECURSIVE Walk(_, _, _)
Walk(cf, node, seen) ==
  IF cf[node] = Undefined \/ node \in seen THEN <<>>
  ELSE CHOOSE w \in {<<node>> \o Walk(cf, nxt, sn) :
                       nxt \in {cf[node]}, sn \in {seen \cup {node}}} : TRUE

\* the node the walk stops at
RECURSIVE WalkEnd(_, _, _)
WalkEnd(cf, node, seen) ==
  IF cf[node] = Undefined \/ node \in seen THEN node
  ELSE CHOOSE w \in {WalkEnd(cf, nxt, sn) :
                       nxt \in {cf[node]}, sn \in {seen \cup {node}}} : TRUE

Range(s) == {s[i] : i \in 1 .. Len(s)}

\* variant: start.setState(states.SUCCESS) is left out
MarkPath_noStart(st, cf, node) ==
  [n \in DOMAIN st |->
     IF n \in Range(Walk(cf, node, {})) THEN SUCCESS ELSE st[n]]

\* states after the success branch: SUCCESS on the walked cells and on start
MarkPath(st, cf, node) ==
  [n \in DOMAIN st |->
     IF n \in Range(Walk(cf, node, {})) \/ n = start THEN SUCCESS ELSE st[n]]

\* variant: node.setState(states.QUEUED) is left out
RelaxNode_noQueued(S, currentNode, node) ==
  CHOOSE R \in
    {[g |-> IF better THEN [S.g EXCEPT ![node] = tempG] ELSE S.g,
      h |-> IF better THEN [S.h EXCEPT ![node] = newH] ELSE S.h,
      f |-> newF,
      cameFrom |-> IF better THEN [S.cameFrom EXCEPT ![node] = currentNode]
                   ELSE S.cameFrom,
      queue |-> SortByF(Append(S.queue, node), newF),
      state |-> S.state] :
       tempG \in {S.g[currentNode] + NodeDist(currentNode, node)},
       newH \in {NodeDist(node, finish)},
       better \in {S.g[currentNode] + NodeDist(currentNode, node) < S.g[node]},
       newF \in {IF S.g[currentNode] + NodeDist(currentNode, node) < S.g[node]
                 THEN [S.f EXCEPT ![node] = S.g[currentNode]
                                            + NodeDist(currentNode, node)
                                            + NodeDist(node, finish)]
                 ELSE S.f}} : TRUE

\* variant: tempG is written to currentNode.g, outside the comparison
RelaxNode_gOnCurrent(S, currentNode, node) ==
  CHOOSE R \in
    {[g |-> [S.g EXCEPT ![currentNode] = tempG],
      h |-> IF better THEN [S.h EXCEPT ![node] = newH] ELSE S.h,
      f |-> newF,
      cameFrom |-> IF better THEN [S.cameFrom EXCEPT ![node] = currentNode]
                   ELSE S.cameFrom,
      queue |-> SortByF(Append(S.queue, node), newF),
      state |-> [S.state EXCEPT ![node] = QUEUED]] :
       tempG \in {S.g[currentNode] + NodeDist(currentNode, node)},
       newH \in {NodeDist(node, finish)},
       better \in {S.g[currentNode] + NodeDist(currentNode, node) < S.g[node]},
       newF \in {IF S.g[currentNode] + NodeDist(currentNode, node) < S.g[node]
                 THEN [S.f EXCEPT ![node] = S.g[currentNode]
                                            + NodeDist(currentNode, node)
                                            + NodeDist(node, finish)]
                 ELSE S.f}} : TRUE

\* variant: the relaxation is done without the comparison and queue.sort is
\* left out
RelaxNode_relaxNoSort(S, currentNode, node) ==
  CHOOSE R \in
    {[g |-> IF better THEN [S.g EXCEPT ![node] = tempG] ELSE S.g,
      h |-> IF better THEN [S.h EXCEPT ![node] = newH] ELSE S.h,
      f |-> newF,
      cameFrom |-> IF better THEN [S.cameFrom EXCEPT ![node] = currentNode]
                   ELSE S.cameFrom,
      queue |-> Append(S.queue, node),
      state |-> [S.state EXCEPT ![node] = QUEUED]] :
       tempG \in {S.g[currentNode] + NodeDist(currentNode, node)},
       newH \in {NodeDist(node, finish)},
       better \in {TRUE},
       newF \in {IF TRUE
                 THEN [S.f EXCEPT ![node] = S.g[currentNode]
                                            + NodeDist(currentNode, node)
                                            + NodeDist(node, finish)]
                 ELSE S.f}} : TRUE

\* body of newNodes.forEach for one node
RelaxNode(S, currentNode, node) ==
  CHOOSE R \in
    {[g |-> IF better THEN [S.g EXCEPT ![node] = tempG] ELSE S.g,
      h |-> IF better THEN [S.h EXCEPT ![node] = newH] ELSE S.h,
      f |-> newF,
      cameFrom |-> IF better THEN [S.cameFrom EXCEPT ![node] = currentNode]
                   ELSE S.cameFrom,
      queue |-> SortByF(Append(S.queue, node), newF),
      state |-> [S.state EXCEPT ![node] = QUEUED]] :
       tempG \in {S.g[currentNode] + NodeDist(currentNode, node)},
       newH \in {NodeDist(node, finish)},
       better \in {S.g[currentNode] + NodeDist(currentNode, node) < S.g[node]},
       newF \in {IF S.g[currentNode] + NodeDist(currentNode, node) < S.g[node]
                 THEN [S.f EXCEPT ![node] = S.g[currentNode]
                                            + NodeDist(currentNode, node)
                                            + NodeDist(node, finish)]
                 ELSE S.f}} : TRUE

RECURSIVE ForEach(_, _, _)
ForEach(S, currentNode, nodes) ==
  IF nodes = <<>> THEN S
  ELSE CHOOSE R \in {ForEach(T, currentNode, rest) :
                       T \in {RelaxNode(S, currentNode, Head(nodes))},
                       rest \in {Tail(nodes)}} : TRUE

\* draw(), queue not empty and queue[0] is finish
DrawSuccess ==
  /\ steps < MaxSteps
  /\ Len(queue) > 0
  /\ Head(queue) = finish
  /\ connected' = [connected EXCEPT ![finish] = getConnections(connected, state, finish)]
  /\ state' = MarkPath(state, cameFrom, finish)
  /\ steps' = steps + 1
  /\ UNCHANGED <<columns, rows, g, h, f, cameFrom, queue, closed, density, error>>

\* variant: queue.shift() is left out
Expanded_noShift ==
  LET currentNode == Head(queue)
  IN ForEach([g |-> g, h |-> h, f |-> f, cameFrom |-> cameFrom,
              queue |-> queue,
              state |-> [state EXCEPT ![currentNode] = CLOSED]],
             currentNode, getConnections(connected, state, currentNode))

\* the else branch of draw() on queue[0]: the fields after closing the node
\* and running newNodes.forEach
Expanded ==
  LET currentNode == Head(queue)
  IN ForEach([g |-> g, h |-> h, f |-> f, cameFrom |-> cameFrom,
              queue |-> Tail(queue),
              state |-> [state EXCEPT ![currentNode] = CLOSED]],
             currentNode, getConnections(connected, state, currentNode))

\* draw(), queue not empty and queue[0] is not finish
DrawExpand ==
  /\ steps < MaxSteps
  /\ Len(queue) > 0
  /\ Head(queue) # finish
  /\ connected' = [connected EXCEPT
                     ![Head(queue)] = getConnections(connected, state, Head(queue))]
  /\ closed' = Append(closed, Head(queue))
  /\ \E S \in {Expanded} :
       /\ g' = S.g
       /\ h' = S.h
       /\ f' = S.f
       /\ cameFrom' = S.cameFrom
       /\ queue' = S.queue
       /\ state' = S.state
  /\ steps' = steps + 1
  /\ UNCHANGED <<columns, rows, density, error>>

\* variant: every node that is not BLOCKED becomes FAILED
FailStates_notBlocked(st) ==
  [n \in DOMAIN st |-> IF st[n] # BLOCKED THEN FAILED ELSE st[n]]

\* states after the failure branch: every CLOSED node becomes FAILED
FailStates(st) ==
  [n \in DOMAIN st |-> IF st[n] = CLOSED THEN FAILED ELSE st[n]]

\* draw(), queue empty and start is not SUCCESS
\* (after a setup that threw, start is undefined and start.state throws)
DrawFailed ==
  /\ steps < MaxSteps
  /\ error = NoError
  /\ Len(queue) = 0
  /\ state[start] # SUCCESS
  /\ state' = FailStates(state)
  /\ steps' = steps + 1
  /\ UNCHANGED <<columns, rows, g, h, f, cameFrom, connected, queue, closed,
                 density, error>>

Next == DrawSuccess \/ DrawExpand \/ DrawFailed

Spec == Init /\ [][Next]_vars

\* p5 calls draw() on every frame
FairSpec == Spec /\ WF_vars(Next)

\* setup on any canvas and grid options, then draw()
ConfigSpec == ConfigInit /\ [][Next]_vars

\* ---- getConnections called on its own ------------------------------------
\* node.getConnections(grid) on a node of the grid that setup built
CallGetConnections(n) ==
  /\ steps < MaxCalls
  /\ connected' = [connected EXCEPT ![n] = getConnections(connected, state, n)]
  /\ steps' = steps + 1
  /\ UNCHANGED <<columns, rows, state, g, h, f, cameFrom, queue, closed,
                 density, error>>

CallNext == \E n \in Cells : CallGetConnections(n)

CallSpec == Init /\ [][CallNext]_vars

\* ---- notions the properties use -----------------------------------------
Succeeded == state[start] = SUCCESS

Failed == Len(queue) = 0 /\ state[start] = FAILED

TypeOK ==
  /\ columns \in 1 .. MaxCells
  /\ rows \in 1 .. MaxCells
  /\ columns * rows <= MaxCells
  /\ steps \in 0 .. MaxSteps

Terminal == Succeeded \/ Failed

Max(a, b) == IF a >= b THEN a ELSE b

Reverse(s) == [i \in 1 .. Len(s) |-> s[Len(s) + 1 - i]]

\* two distinct cells that touch by an edge or a corner
Adjacent(a, b) ==
  /\ a # b
  /\ a[1] - b[1] \in {-1, 0, 1}
  /\ a[2] - b[2] \in {-1, 0, 1}

NoBlocked == \A n \in Cells : state[n] # BLOCKED

\* the path read off the predecessor links: from the cell where the walk
\* back from finish stops, forward to finish
ReconstructedPath ==
  Reverse(Walk(cameFrom, finish, {}) \o <<WalkEnd(cameFrom, finish, {})>>)

\* cells reachable from start over non-blocked 8-adjacent cells
RECURSIVE ReachFrom(_)
ReachFrom(S) ==
  CHOOSE R \in {IF nxt = S THEN S ELSE ReachFrom(nxt) :
                  nxt \in {S \cup {n \in Cells : /\ state[n] # BLOCKED
                                                 /\ \E m \in S : Adjacent(m, n)}}} : TRUE

Reachable == ReachFrom({start})

\* finish is another cell than start and each of its neighbours is Blocked
GoalEnclosed ==
  /\ start # finish
  /\ \A n \in Cells : Adjacent(n, finish) => state[n] = BLOCKED

\* ---- C1 -----------------------------------------------------------------
\* C1: on a grid without Blocked cells the search ends in Succeeded and the
\* reconstructed path has at least max(columns, rows) cells.
C1_OpenGridPathLength ==
  (NoBlocked /\ Succeeded) => Len(ReconstructedPath) >= Max(columns, rows)

\* ---- C2 -----------------------------------------------------------------
\* C2: in Succeeded the reconstructed path starts at the Start cell, ends at
\* the Goal cell, and each cell is the predecessor of the next, so that
\* consecutive cells are 8-adjacent and none is Blocked.
C2_PathFromStartToGoal ==
  Succeeded =>
    LET p == ReconstructedPath
    IN /\ p[1] = start
       /\ p[Len(p)] = finish
       /\ \A i \in 1 .. Len(p) - 1 :
            /\ cameFrom[p[i + 1]] = p[i]
            /\ Adjacent(p[i], p[i + 1])
       /\ \A i \in 1 .. Len(p) : state[p[i]] # BLOCKED

\* ---- C3 -----------------------------------------------------------------
\* C3: when the goal is enclosed by Blocked cells the search reaches Failed,
\* and a cell is relabelled Unreachable only if it was Explored and can be
\* reached from start over non-blocked 8-adjacent cells.
C3_EnclosedGoalFails ==
  /\ GoalEnclosed ~> Failed
  /\ [](GoalEnclosed =>
          \A n \in Cells :
            state[n] = FAILED => n \in Range(closed) /\ n \in Reachable)

C3_Witness ==
  /\ GoalEnclosed
  /\ Failed
  /\ \E n \in Cells : n # start /\ state[n] = FAILED

\* ---- C4 -----------------------------------------------------------------
\* C4: a draw() in a terminal state (Succeeded or Failed) changes no node
\* field, nor the queue, nor the closed list.
C4_TerminalStepsChangeNothing ==
  [][Terminal => UNCHANGED <<state, g, h, f, cameFrom, connected, queue, closed>>]_vars

\* a draw() has been made after Succeeded was reached with at least one
\* expansion before it
C4_Witness ==
  /\ Succeeded
  /\ Len(closed) >= 1
  /\ steps >= Len(closed) + 2

\* ---- C5 -----------------------------------------------------------------
\* C5: the g of a cell in the closed list is never changed: neither by the
\* rest of the draw() that closes the cell nor by a later draw().
C5_ExploredGFinal ==
  [][\A n \in Range(closed') : g'[n] = g[n]]_vars

C5_Witness == Len(closed) >= 2 /\ Len(queue) >= 1

\* ---- C6 -----------------------------------------------------------------
\* C6: no cell is in both the queue and the closed list, and a cell in the
\* closed list is never put into the queue again.
C6_ExploredNeverRequeued ==
  /\ [](Range(queue) \cap Range(closed) = {})
  /\ [][\A n \in Range(closed) : n \notin Range(queue')]_vars

C6_Witness ==
  /\ Len(closed) >= 2
  /\ \E n \in Range(queue) : \E m \in Range(closed) : Adjacent(n, m)

\* ---- C7 -----------------------------------------------------------------
\* C7: a Blocked cell is never in the queue or the closed list and never has
\* cameFrom set; no step takes it out of the Blocked state.
C7_BlockedUntouched ==
  /\ [](\A n \in Cells :
          state[n] = BLOCKED =>
            /\ n \notin Range(queue)
            /\ n \notin Range(closed)
            /\ cameFrom[n] = Undefined)
  /\ [][\A n \in Cells : state[n] = BLOCKED => state'[n] = BLOCKED]_vars

\* a Blocked cell next to a cell that has been expanded
C7_Witness ==
  \E n \in Cells : /\ state[n] = BLOCKED
                   /\ \E m \in Range(closed) : Adjacent(n, m)

\* ---- C8 -----------------------------------------------------------------
\* C8: the predecessor links have no cycle: from a cell with a predecessor
\* the links lead to the Start cell within columns * rows steps, so the walk
\* back from the Goal in Succeeded ends at the Start cell.
C8_WalkEndsAtStart ==
  /\ \A n \in Cells :
       cameFrom[n] # Undefined =>
         /\ WalkEnd(cameFrom, n, {}) = start
         /\ Len(Walk(cameFrom, n, {})) <= columns * rows
  /\ Succeeded =>
       /\ WalkEnd(cameFrom, finish, {}) = start
       /\ Len(Walk(cameFrom, finish, {})) <= columns * rows

\* ---- C9 -----------------------------------------------------------------
\* C9: on the 3x1 grid without Blocked cells the search is in Succeeded after
\* 2 steps and the path is (0,0), (1,0), (2,0).
C9_ScenarioB ==
  (columns = 3 /\ rows = 1 /\ NoBlocked) =>
    /\ steps = 2 => Succeeded
    /\ Succeeded => ReconstructedPath = << <<0, 0>>, <<1, 0>>, <<2, 0>> >>

\* ---- C10 ----------------------------------------------------------------
\* C10: on the 1x1 grid the first step gives Succeeded and the path is the
\* start cell alone.
C10_ScenarioA ==
  (columns = 1 /\ rows = 1 /\ steps >= 1) =>
    /\ Succeeded
    /\ ReconstructedPath = <<start>>
    /\ {n \in Cells : state[n] = SUCCESS} = {start}

C10_Witness == columns = 1 /\ rows = 1 /\ steps = 1 /\ Succeeded

\* ---- C11 ----------------------------------------------------------------
\* C11: a diagonal neighbour is admitted whatever the two cells beside the
\* diagonal are, so on the 2x2 grid with (1,0) and (0,1) Blocked the search
\* ends in Succeeded (never in Failed) with the path (0,0), (1,1).
C11_ScenarioC ==
  (columns = 2 /\ rows = 2 /\ state[<<1, 0>>] = BLOCKED /\ state[<<0, 1>>] = BLOCKED) =>
    /\ ~Failed
    /\ steps >= 1 => <<1, 1>> \in Range(connected[start])
    /\ Succeeded => ReconstructedPath = << <<0, 0>>, <<1, 1>> >>

TentativeG(currentNode, node) == g[currentNode] + NodeDist(currentNode, node)

\* C14: a step that expands current visits every neighbour that is not
\* Blocked and not in the closed list, a neighbour already in the queue
\* included, and where current.g + dist < neighbor.g it sets the neighbour's
\* g to that value, its f to g + h and its cameFrom to current.
C14_FrontierNeighboursRelaxed ==
  [][closed' # closed =>
       LET current == closed'[Len(closed')]
       IN \A n \in Cells :
            (Adjacent(current, n) /\ state[n] # BLOCKED /\ n \notin Range(closed')) =>
              /\ n \in Range(connected'[current])
              /\ TentativeG(current, n) < g[n] =>
                   /\ g'[n] = TentativeG(current, n)
                   /\ f'[n] = g'[n] + h'[n]
                   /\ cameFrom'[n] = current]_vars

\* ---- C15 ----------------------------------------------------------------
\* a cost above the cost of every path of the grid
NoPath == MaxCells * 10000

Min(a, b) == IF a <= b THEN a ELSE b

\* least element of a set of costs, NoPath for the empty set
MinCost(S) == IF S = {} THEN NoPath ELSE CHOOSE x \in S : \A y \in S : x <= y

\* the cost paired with cell n in a set P of <<cell, cost>> pairs
CostOf(P, n) == (CHOOSE p \in P : p[1] = n)[2]

\* k rounds of relaxing every cell over its non-blocked neighbours
RECURSIVE Cheapest(_, _)
Cheapest(P, k) ==
  IF k = 0 THEN P
  ELSE CHOOSE R \in
         {Cheapest(P2, k - 1) :
            P2 \in {{<<n, IF state[n] = BLOCKED THEN NoPath
                          ELSE Min(CostOf(P, n),
                                   MinCost({CostOf(P, m) + NodeDist(m, n) :
                                              m \in {m \in Cells :
                                                       /\ Adjacent(m, n)
                                                       /\ CostOf(P, m) < NoPath}}))>> :
                      n \in Cells}}} : TRUE

\* cost of a cheapest path from start to each cell over non-blocked
\* 8-adjacent cells, in the unit of dist(), as <<cell, cost>> pairs
ShortestCosts ==
  Cheapest({<<n, IF n = start THEN 0 ELSE NoPath>> : n \in Cells}, columns * rows)

\* C15: the g of every cell in the closed list is the cost of a cheapest
\* path from start to it over non-blocked 8-adjacent cells.
C15_ExploredGIsShortest ==
  \E P \in {ShortestCosts} : \A n \in Range(closed) : g[n] = CostOf(P, n)

\* ---- C16 ----------------------------------------------------------------
\* C16: a cell other than start has an unknown (infinite) g until it is
\* discovered, so its first discovery relaxes it: every cell in the queue or
\* the closed list other than start has a predecessor p that is 8-adjacent
\* to it, with g = p.g + dist(p, cell) > 0 and f = g + h.
C16_DiscoveredCellsRelaxed ==
  \A n \in (Range(queue) \cup Range(closed)) \ {start} :
    /\ cameFrom[n] # Undefined
    /\ cameFrom[n] \in Cells
    /\ Adjacent(cameFrom[n], n)
    /\ g[n] = g[cameFrom[n]] + NodeDist(cameFrom[n], n)
    /\ g[n] > 0
    /\ f[n] = g[n] + h[n]

\* ---- C17 ----------------------------------------------------------------
\* C17: the search ends in Succeeded exactly when finish can be reached from
\* start over non-blocked 8-adjacent cells, and in Failed exactly when it
\* cannot.
C17_VerdictCorrect ==
  /\ [](Succeeded => finish \in Reachable)
  /\ [](Failed => finish \notin Reachable)
  /\ (finish \in Reachable) ~> Succeeded
  /\ (finish \notin Reachable) ~> Failed

\* a failed search on a grid whose goal has a neighbour that is not Blocked
C17_Witness ==
  /\ Failed
  /\ ~GoalEnclosed
  /\ finish \notin Reachable

\* ---- C18 ----------------------------------------------------------------
\* C18: every run ends: the search is in Succeeded or Failed after at most
\* columns * rows + 1 calls of draw(), and every call that does not end the
\* search moves exactly one cell, not closed before, into the closed list.
C18_Terminates ==
  /\ <>Terminal
  /\ [](steps >= columns * rows + 1 => Terminal)
  /\ [][~Terminal' =>
          /\ Len(closed') = Len(closed) + 1
          /\ SubSeq(closed', 1, Len(closed)) = closed
          /\ closed'[Len(closed')] \notin Range(closed)]_vars

\* a search that needed columns * rows calls of draw() on a grid of at
\* least four cells
C18_Witness ==
  /\ Terminal
  /\ columns * rows >= 4
  /\ steps = columns * rows
  /\ Len(closed) = columns * rows - 1

\* ---- C19 ----------------------------------------------------------------
\* C19: a cell is put into the queue at most once in a run: the queue never
\* holds a cell twice, a cell that enters it was OPEN or FINISH and neither
\* queued nor closed, it is QUEUED once the step is done, and a cell leaves
\* the queue only for the closed list.
C19_QueuedAtMostOnce ==
  /\ [](\A i, j \in 1 .. Len(queue) : queue[i] = queue[j] => i = j)
  /\ [][/\ \A n \in Range(queue') \ Range(queue) :
             /\ state[n] = OPEN \/ state[n] = FINISH
             /\ n \notin Range(closed)
             /\ state'[n] = QUEUED
        /\ \A n \in Range(queue) \ Range(queue') : n \in Range(closed')]_vars

\* a queued cell next to two closed cells: the second expansion beside it
\* did not push it again
C19_Witness ==
  \E n \in Range(queue) :
    /\ state[n] = QUEUED
    /\ Cardinality({m \in Range(closed) : Adjacent(m, n)}) >= 2

\* ---- C20 ----------------------------------------------------------------
\* C20: getConnections caches its result on the node: once a call has left a
\* list on the node, a later call returns that list and appends nothing.
C20_ConnectionsCached ==
  [][\A n \in Cells : connected[n] # <<>> => connected'[n] = connected[n]]_vars

\* ---- C12 ----------------------------------------------------------------
\* a configuration the claim calls invalid
InvalidConfig ==
  \/ columns <= 0
  \/ rows <= 0
  \/ density < 0
  \/ density > 100
  \/ start \notin Cells
  \/ finish \notin Cells

\* C12 as claimed: an invalid configuration (columns <= 0 or rows <= 0, a
\* density outside [0,100], start or goal outside the grid) is rejected with
\* an error and no search takes place: nothing is queued and no step is
\* made.  (Any error is taken for the rejection.)
C12_InvalidConfigurationRejected ==
  InvalidConfig =>
    /\ error # NoError
    /\ queue = <<>>
    /\ closed = <<>>
    /\ steps = 0

\* C12 as amended: with columns = 0 or rows = 0 setup ends at once with a
\* TypeError and no search takes place; on every other canvas setup throws
\* nothing, start and finish are cells of the grid, and a density outside
\* [0,100] is accepted: below 0 it leaves no cell Blocked, above 100 it leaves
\* every cell but start and finish Blocked.
C12_EmptyGridThrows ==
  /\ (columns = 0 \/ rows = 0) =>
       /\ error = TypeError
       /\ queue = <<>>
       /\ closed = <<>>
       /\ steps = 0
  /\ (columns >= 1 /\ rows >= 1) =>
       /\ error = NoError
       /\ start \in Cells
       /\ finish \in Cells
       /\ steps = 0 => queue = <<start>>
       /\ density < 0 => NoBlocked
       /\ density > 100 => \A n \in Cells \ {start, finish} : state[n] = BLOCKED

\* setup has thrown on a canvas with columns but no row
C12_Witness ==
  /\ columns >= 1
  /\ rows = 0
  /\ error = TypeError
====
